---------------------------- MODULE Spec2Model ----------------------------
(***************************************************************************)
(* A model of xcri_rdf.py: the XCRI-CAP serializer that turns an RDF graph *)
(* of course facts into an XML document.                                   *)
(*                                                                         *)
(* Conventions of the model                                                *)
(*   - An RDF term is a record [k, v, dt, xml]: k is "uri", "lit" or       *)
(*     "none" (Python's None), v the string form, dt the datatype of a     *)
(*     literal, xml what the markup parser makes of the literal's text.    *)
(*   - A graph is a sequence of triples <<s, p, o>> without repetitions;   *)
(*     its order is the order in which the store enumerates the triples.   *)
(*   - A text is a sequence of strings.  Where the code looks at single    *)
(*     characters (xsi_type, is_localpart) the strings are characters;     *)
(*     elsewhere a text is one opaque token, Str("...").                   *)
(*   - A Python dict of XML attributes is a function from names to texts.  *)
(*   - The output stream is the sequence of writes made to it.             *)
(***************************************************************************)
EXTENDS Integers, Sequences, FiniteSets, TLC

VARIABLES
    graph,      \* self.graph
    simple,     \* self.simple
    hashflip,   \* which of two iteration orders Python's sets have in this process
    plan,       \* the entry points still to be called, each on a fresh serializer
    mode,       \* the entry point that is running: "serialize", "generator" or "idle"
    stack,      \* the work stack of suspended producers
    xg,         \* the IndentingXMLGenerator: [depth, chars]
    stream,     \* self.stream of the running (or last run) entry point
    sink,       \* what serialize(stream) has written to its sink
    chunks,     \* the chunks generator() has yielded
    status,     \* per entry point: "idle", "running", "returned" or "raised"
    lost,       \* what generator() had buffered when an exception ended it
    log,        \* the producers resumed so far, by frame id, in order
    nextid,     \* the next producer's frame id
    seen,       \* the states (locals) that the while loop of the running next()
                \* call has been in before its turns so far
    call        \* the rule that is called on its own, and with what (RulesSpec)

vars == <<graph, simple, hashflip, plan, mode, stack, xg, stream, sink, chunks,
          status, lost, log, nextid, seen, call>>

-----------------------------------------------------------------------------
(* Terms                                                                   *)

\* literal.datatype is None: a datatype is a text, None the empty one.
NoDatatype == <<>>

\* What the fragment parser makes of a term's text that is no markup
NoXml == [ok |-> FALSE, root |-> <<>>]

None == [k |-> "none", v |-> "", dt |-> NoDatatype, xml |-> NoXml]

URIRef(s) == [k |-> "uri", v |-> s, dt |-> NoDatatype, xml |-> NoXml]

Literal(lex, datatype) == [k |-> "lit", v |-> lex, dt |-> datatype, xml |-> NoXml]

\* A literal whose text the fragment parser turns into the tree root
Fragment(lex, datatype, root) ==
    [k |-> "lit", v |-> lex, dt |-> datatype, xml |-> [ok |-> TRUE, root |-> root]]

\* bool(term): None and the empty string are false.
Truthy(t) == t.k # "none" /\ t.v # ""

Str(s) == <<s>>

\* str(term)
StrOf(t) == Str(t.v)

EmptyDict == <<>>

\* d1.update(d2) of two dicts
Update(d1, d2) ==
    [n \in DOMAIN d1 \cup DOMAIN d2 |-> IF n \in DOMAIN d2 THEN d2[n] ELSE d1[n]]

RECURSIVE Concat(_)
Concat(ss) == IF ss = <<>> THEN <<>> ELSE Head(ss) \o Concat(Tail(ss))

RECURSIVE Reverse(_)
Reverse(s) == IF s = <<>> THEN <<>> ELSE Append(Reverse(Tail(s)), Head(s))

RECURSIVE Dedup(_)
Dedup(s) ==
    IF s = <<>> THEN <<>>
    ELSE LET r == Dedup(SelectSeq(Tail(s), LAMBDA x : x # Head(s)))
         IN  <<Head(s)>> \o r

Range(s) == {s[i] : i \in DOMAIN s}

RECURSIVE Map3(_)
Map3(ts) == IF ts = <<>> THEN <<>> ELSE <<Head(ts)[3]>> \o Map3(Tail(ts))

RECURSIVE Map1(_)
Map1(ts) == IF ts = <<>> THEN <<>> ELSE <<Head(ts)[1]>> \o Map1(Tail(ts))

RECURSIVE Terms(_)
Terms(ts) ==
    IF ts = <<>> THEN <<>> ELSE <<Head(ts)[1], Head(ts)[3]>> \o Terms(Tail(ts))

-----------------------------------------------------------------------------
(* The Graph Accessor (rdflib.Graph), as the serializer uses it            *)

\* graph.objects(s, p)
Objects(g, s, p) == Map3(SelectSeq(g, LAMBDA t : t[1] = s /\ t[2] = p))

\* graph.subjects(p, o)
Subjects(g, p, o) == Map1(SelectSeq(g, LAMBDA t : t[2] = p /\ t[3] = o))

\* graph.value(s, p): the first object, or None
Value(g, s, p) ==
    LET os == Objects(g, s, p) IN IF os = <<>> THEN None ELSE Head(os)

\* graph.value(None, p, o): the first subject, or None
ValueSubject(g, p, o) ==
    LET ss == Subjects(g, p, o) IN IF ss = <<>> THEN None ELSE Head(ss)

\* (s, p, o) in graph
Has(g, s, p, o) == \E i \in DOMAIN g : g[i] = <<s, p, o>>

\* itertools.chain(*(graph.objects(entity, p) for p in ps))
RECURSIVE ChainObjects(_, _, _)
ChainObjects(g, s, ps) ==
    IF ps = <<>> THEN <<>> ELSE Objects(g, s, Head(ps)) \o ChainObjects(g, s, Tail(ps))

\* The order in which this process iterates over a set of terms: Python fixes
\* it by the terms' hashes, the same for every set of the process.  The model
\* knows two such orders.
SetIter(g, flip, S) ==
    LET u == SelectSeq(Dedup(Terms(g)), LAMBDA t : t \in S)
    IN  IF flip THEN Reverse(u) ELSE u

-----------------------------------------------------------------------------
(* The Namespace Registry: XMLNS, INVERSE_XMLNS, is_localpart, xsi_type    *)
(* Here a text is a sequence of characters.                                *)

Chars_xcri == <<"x","c","r","i">>

Chars_mlo == <<"m","l","o">>

Chars_dc == <<"d","c">>

Chars_xsi == <<"x","s","i">>

Chars_cdp == <<"c","d","p">>

Chars_html == <<"h","t","m","l">>

Chars_xcriterms == <<"x","c","r","i","t","e","r","m","s">>

URI_xcri ==
    <<"h","t","t","p",":","/","/","x","c","r","i",".","o","r","g","/","p",
      "r","o","f","i","l","e","s","/","1",".","2","/","c","a","t","a","l",
      "o","g">>

URI_mlo ==
    <<"h","t","t","p",":","/","/","p","u","r","l",".","o","r","g","/","n",
      "e","t","/","m","l","o">>

URI_dc ==
    <<"h","t","t","p",":","/","/","p","u","r","l",".","o","r","g","/","d",
      "c","/","e","l","e","m","e","n","t","s","/","1",".","1","/">>

URI_xsi ==
    <<"h","t","t","p",":","/","/","w","w","w",".","w","3",".","o","r","g",
      "/","2","0","0","1","/","X","M","L","S","c","h","e","m","a","-","i",
      "n","s","t","a","n","c","e">>

URI_cdp ==
    <<"h","t","t","p",":","/","/","x","c","r","i",".","c","o",".","u","k">>

URI_html ==
    <<"h","t","t","p",":","/","/","w","w","w",".","w","3",".","o","r","g",
      "/","1","9","9","9","/","x","h","t","m","l">>

URI_xcriterms ==
    <<"h","t","t","p",":","/","/","x","c","r","i",".","o","r","g","/","p",
      "r","o","f","i","l","e","s","/","1",".","2","/","c","a","t","a","l",
      "o","g","/","t","e","r","m","s">>

XMLNS ==
    << <<Chars_xcri, URI_xcri>>,
       <<Chars_mlo, URI_mlo>>,
       <<Chars_dc, URI_dc>>,
       <<Chars_xsi, URI_xsi>>,
       <<Chars_cdp, URI_cdp>>,
       <<Chars_html, URI_html>>,
       <<Chars_xcriterms, URI_xcriterms>> >>

\* len(XMLNS[k]) is not what the sort looks at: sorted(XMLNS, key=len) sorts
\* the dict's keys, the prefixes, by their own length.
SortKey(pair) == Len(pair[1])

\* sorted(..., key=len, reverse=True): a stable sort, longest key first, of
\* the pairs (k, XMLNS[k]).
RECURSIVE InsertByKey(_, _)
InsertByKey(pair, sorted) ==
    IF sorted = <<>> THEN <<pair>>
    ELSE IF SortKey(Head(sorted)) >= SortKey(pair)
         THEN <<Head(sorted)>> \o InsertByKey(pair, Tail(sorted))
         ELSE <<pair>> \o sorted

RECURSIVE SortedByKey(_)
SortedByKey(pairs) ==
    IF pairs = <<>> THEN <<>>
    ELSE InsertByKey(pairs[Len(pairs)], SortedByKey(SubSeq(pairs, 1, Len(pairs) - 1)))

INVERSE_XMLNS == SortedByKey(XMLNS)

Upper == {"A","B","C","D","E","F","G","H","I","J","K","L","M","N","O","P","Q",
          "R","S","T","U","V","W","X","Y","Z"}

Lower == {"a","b","c","d","e","f","g","h","i","j","k","l","m","n","o","p","q",
          "r","s","t","u","v","w","x","y","z"}

Digit == {"0","1","2","3","4","5","6","7","8","9"}

\* The first character class of is_localpart.  The pattern is compiled with
\* re.VERBOSE, which does not ignore white space inside a character class, so
\* the space is in the class.  The class's ranges above U+007F are outside the
\* alphabet of the model.
NameStartChar == Upper \cup Lower \cup {"_", " "}

\* The second character class of is_localpart.
NameChar == NameStartChar \cup {"-", "."} \cup Digit

\* is_localpart(s): re.match of ^[start][rest]*$ ; "$" also matches before a
\* final line break.
is_localpart(s) ==
    LET body == IF Len(s) > 0 /\ s[Len(s)] = "\n" THEN SubSeq(s, 1, Len(s) - 1) ELSE s
    IN  /\ Len(body) >= 1
        /\ body[1] \in NameStartChar
        /\ \A i \in 2..Len(body) : body[i] \in NameChar

\* uri.startswith(p)
StartsWith(uri, p) == Len(p) <= Len(uri) /\ SubSeq(uri, 1, Len(p)) = p

\* uri[n:]
From(uri, n) == SubSeq(uri, n + 1, Len(uri))

\* The second loop of xsi_type: the first i in range(len(uri)) with a valid
\* local name uri[i:].
RECURSIVE SynthesizedType(_, _)
SynthesizedType(uri, i) ==
    IF i >= Len(uri) THEN EmptyDict
    ELSE IF is_localpart(From(uri, i))
         THEN ("xsi:type" :> (<<"n", "s", ":">> \o From(uri, i)))
              @@ ("xmlns:ns" :> SubSeq(uri, 1, i))
         ELSE SynthesizedType(uri, i + 1)

\* The first loop of xsi_type, "for ns, prefix in INVERSE_XMLNS": ns is bound
\* to the first component of the pair and prefix to the second.
RECURSIVE KnownType(_, _)
KnownType(uri, table) ==
    IF table = <<>> THEN SynthesizedType(uri, 0)
    ELSE LET ns        == Head(table)[1]
             prefix    == Head(table)[2]
             localpart == From(uri, Len(ns))
         IN  IF StartsWith(uri, ns) /\ is_localpart(localpart)
             THEN "xsi:type" :> (prefix \o <<":">> \o localpart)
             ELSE KnownType(uri, Tail(table))

xsi_type(uri) == KnownType(uri, INVERSE_XMLNS)

-----------------------------------------------------------------------------
(* The Indenting Document Writer.  A writer value w is the generator's     *)
(* state together with the stream it writes to and the exception, if any,  *)
(* that has ended the running call: [out, depth, chars, exc].              *)

NoExc == "none"

Event(t, name, attrs, text) == [t |-> t, name |-> name, attrs |-> attrs, text |-> text]

\* '\n' + '  ' * depth
Indentation(depth) == <<"\n">> \o [i \in 1..depth |-> "  "]

IsEmptyText(text) == \A i \in DOMAIN text : text[i] = ""

\* XMLGenerator.characters: writes nothing for empty content
BaseCharacters(w, content) ==
    IF IsEmptyText(content) THEN w
    ELSE [w EXCEPT !.out = Append(@, Event("chars", "", EmptyDict, content))]

\* XMLGenerator.startDocument
startDocument(w) ==
    IF w.exc # NoExc THEN w
    ELSE [w EXCEPT !.out = Append(@, Event("decl", "", EmptyDict, <<>>))]

\* IndentingXMLGenerator.startElement
startElement(w, name, attrs) ==
    IF w.exc # NoExc THEN w
    ELSE LET w1 == IF w.depth # 0 /\ ~w.chars
                   THEN BaseCharacters(w, Indentation(w.depth)) ELSE w
         IN  [w1 EXCEPT !.out = Append(@, Event("start", name, attrs, <<>>)),
                        !.depth = @ + 1,
                        !.chars = FALSE]

\* IndentingXMLGenerator.characters
characters(w, content) ==
    IF w.exc # NoExc THEN w
    ELSE [BaseCharacters(w, content) EXCEPT !.chars = TRUE]

\* An endElement that leaves the depth as it is
endElementKeepingDepth(w, name) ==
    IF w.exc # NoExc THEN w
    ELSE LET w2 == IF ~w.chars THEN characters(w, Indentation(w.depth)) ELSE w
         IN  [w2 EXCEPT !.out = Append(@, Event("end", name, EmptyDict, <<>>)),
                        !.chars = FALSE]

\* IndentingXMLGenerator.endElement
endElement(w, name) ==
    IF w.exc # NoExc THEN w
    ELSE LET w1 == [w EXCEPT !.depth = @ - 1]
             w2 == IF ~w1.chars THEN characters(w1, Indentation(w1.depth)) ELSE w1
         IN  [w2 EXCEPT !.out = Append(@, Event("end", name, EmptyDict, <<>>)),
                        !.chars = FALSE]

\* IndentingXMLGenerator.textualElement
textualElement(w, name, attrs, content) ==
    endElement(characters(startElement(w, name, attrs), content), name)

\* An exception raised in the running call: what follows is not executed.
Raise(w, exc) == IF w.exc # NoExc THEN w ELSE [w EXCEPT !.exc = exc]

-----------------------------------------------------------------------------
(* Vocabulary: predicates are named by their compact names; the datatypes   *)
(* that are only compared are opaque; the notation schemes, which xsi_type  *)
(* may be asked to compact, are spelled out.                                *)

labels == <<"skos:prefLabel", "rdfs:label", "dcterms:title", "dc:title">>

identifiers == <<"dc:identifier", "dcterms:identifier">>

subject_predicates == <<"dcterms:subject", "dc:subject">>

urls == <<"foaf:homepage", "foaf:page">>

descriptions == <<"dcterms:description", "rdfs:comment">>

XSD_date == Str("xsd:date")

XSD_dateTime == Str("xsd:dateTime")

XSD_integer == Str("xsd:integer")

Fragment_XHTML == Str("xtypes:Fragment-XHTML")

Fragment_HTML == Str("xtypes:Fragment-HTML")

common_descriptive_elements ==
    << <<"xcri:abstract", "xcri:abstract">>,
       <<"xcri:applicationProcedure", "xcri:applicationProcedure">>,
       <<"mlo:assessment", "mlo:assessment">>,
       <<"xcri:learningOutcome", "xcri:learningOutcome">>,
       <<"mlo:objective", "mlo:objective">>,
       <<"mlo:prerequisite", "mlo:prerequisite">>,
       <<"xcri:regulations", "xcri:regulations">> >>

address_elements ==
    << <<"v:street-address", "mlo:address">>,
       <<"v:extended-address", "mlo:address">>,
       <<"v:locality", "mlo:address">>,
       <<"v:postal-code", "mlo:postcode">> >>

\* The keys of typed_descriptive_elements, in the dict's order; the element's
\* xsi:type is the key's own compact name.
typed_descriptive_elements ==
    <<"xcriterms:careerOutcome", "xcriterms:contactHours", "xcriterms:contactPattern",
      "xcriterms:events", "xcriterms:indicativeResource", "xcriterms:leadsTo",
      "xcriterms:policy", "xcriterms:providedResource", "xcriterms:requiredResource",
      "xcriterms:specialFeature", "xcriterms:support", "xcriterms:structure",
      "xcriterms:studyHours", "xcriterms:teachingStrategy", "xcriterms:topic",
      "cdp:metadataKeywords", "cdp:targetAudience">>

RECURSIVE Join(_)
Join(cs) == IF cs = <<>> THEN "" ELSE Head(cs) \o Join(Tail(cs))

\* XCRICAPSerializer.xmlns = XMLNS.copy(): prefix -> namespace URI
xmlns == [p \in {Join(XMLNS[i][1]) : i \in DOMAIN XMLNS} |->
            (CHOOSE pair \in Range(XMLNS) : Join(pair[1]) = p)[2]]

-----------------------------------------------------------------------------
(* The Fragment Re-emitter.  A parsed element is a record                   *)
(*   [prefix, local, nsmap, attrib, text, tail, children]                   *)
(* where nsmap is the map of all the prefixes in scope on the element, as   *)
(* lxml gives it, and NoPrefix stands for the key None of the default       *)
(* namespace.                                                               *)

NoPrefix == "None"

\* A serialize_etree that declares the prefixes the ambient context does not
\* have, whatever their URI
DeclarationsOfNewPrefixes(nsmap, previous_nsmap) ==
    LET declared == {ns \in DOMAIN nsmap : ns \notin DOMAIN previous_nsmap}
        key(ns)  == IF ns = NoPrefix THEN "xmlns" ELSE "xmlns:" \o ns
    IN  [a \in {key(ns) : ns \in declared} |->
            nsmap[CHOOSE ns \in declared : key(ns) = a]]

\* The loop over xml.nsmap of serialize_etree: the declarations to add.
Declarations(nsmap, previous_nsmap) ==
    LET declared == {ns \in DOMAIN nsmap :
                        ~(ns \in DOMAIN previous_nsmap /\ nsmap[ns] = previous_nsmap[ns])}
        key(ns)  == IF ns = NoPrefix THEN "xmlns" ELSE "xmlns:" \o ns
    IN  [a \in {key(ns) : ns \in declared} |->
            nsmap[CHOOSE ns \in declared : key(ns) = a]]

TagOf(xml) == IF xml.prefix = NoPrefix THEN xml.local ELSE xml.prefix \o ":" \o xml.local

RECURSIVE serialize_etree(_, _, _)
RECURSIVE SerializeChildren(_, _, _)

\* serialize_etree(xml, xg, previous_nsmap); "previous_nsmap or {}" is the
\* identity on a dict.
serialize_etree(xml, w, previous_nsmap) ==
    LET attrib == Update(xml.attrib, Declarations(xml.nsmap, previous_nsmap))
        w1 == startElement(w, TagOf(xml), attrib)
        w2 == IF IsEmptyText(xml.text) THEN w1 ELSE characters(w1, xml.text)
        w3 == SerializeChildren(xml.children, w2, xml.nsmap)
    IN  endElement(w3, TagOf(xml))

\* "for child in xml": the child, then its tail
SerializeChildren(children, w, nsmap) ==
    IF children = <<>> THEN w
    ELSE LET child == Head(children)
             w1 == serialize_etree(child, w, nsmap)
             w2 == IF IsEmptyText(child.tail) THEN w1 ELSE characters(w1, child.tail)
         IN  SerializeChildren(Tail(children), w2, nsmap)

-----------------------------------------------------------------------------
(* The Mapping Rules Engine                                                 *)

\* descriptive_text_element(xg, name, obj, attrib).  A literal carries in
\* its field xml what the parser makes of its text: [ok, root].
descriptive_text_element(w, name, obj, attrib) ==
    IF w.exc # NoExc THEN w
    ELSE IF obj.k = "uri"
    THEN endElement(startElement(w, name, "href" :> StrOf(obj)), name)
    ELSE IF obj.dt = Fragment_XHTML \/ obj.dt = Fragment_HTML
    THEN IF ~obj.xml.ok
         THEN Raise(w, "XMLSyntaxError")
         ELSE endElement(serialize_etree(obj.xml.root, startElement(w, name, attrib), xmlns),
                         name)
    ELSE textualElement(w, name, attrib, StrOf(obj))

\* _find_first(name, ps, rich_element): the function it returns
find_first(w, g, entity, name, ps, rich_element) ==
    LET objs == ChainObjects(g, entity, ps)
    IN  IF w.exc # NoExc \/ objs = <<>> THEN w
        ELSE IF rich_element
             THEN descriptive_text_element(w, name, Head(objs), EmptyDict)
             ELSE textualElement(w, name, EmptyDict, StrOf(Head(objs)))

serialize_title(w, g, entity) == find_first(w, g, entity, "dc:title", labels, FALSE)

serialize_url(w, g, entity) == find_first(w, g, entity, "mlo:url", urls, FALSE)

serialize_description(w, g, entity) ==
    find_first(w, g, entity, "dc:description", descriptions, TRUE)

serialize_places(w, g, entity) ==
    find_first(w, g, entity, "mlo:places", <<"mlo:places">>, FALSE)

serialize_applyTo(w, g, entity) ==
    find_first(w, g, entity, "xcri:applyTo", <<"xcri:applyTo">>, FALSE)

\* xsi_type(obj.datatype) as a caller runs it: a term without a datatype
\* hands None to xsi_type, whose uri.startswith raises AttributeError.
TypeOfDatatype(t) ==
    IF t.dt = NoDatatype THEN [exc |-> "AttributeError", attrib |-> EmptyDict]
    ELSE [exc |-> NoExc, attrib |-> xsi_type(t.dt)]

\* The first loop of serialize_identifiers
RECURSIVE TypedIdentifiers(_, _)
TypedIdentifiers(w, notations) ==
    IF w.exc # NoExc \/ notations = <<>> THEN w
    ELSE LET obj == Head(notations)
             ty  == TypeOfDatatype(obj)
         IN  IF ty.exc # NoExc THEN Raise(w, ty.exc)
             ELSE IF ty.attrib = EmptyDict
             THEN TypedIdentifiers(w, Tail(notations))
             ELSE TypedIdentifiers(
                      textualElement(w, "dc:identifier", ty.attrib, StrOf(obj)),
                      Tail(notations))

\* The last loop of serialize_identifiers
RECURSIVE PlainIdentifiers(_, _)
PlainIdentifiers(w, ids) ==
    IF w.exc # NoExc \/ ids = <<>> THEN w
    ELSE PlainIdentifiers(textualElement(w, "dc:identifier", EmptyDict, Head(ids)),
                          Tail(ids))

\* The iteration order of the set plain_identifiers, a set of strings
PlainIdentifierSet(g, flip, entity) ==
    LET own   == IF entity.k = "uri" THEN <<StrOf(entity)>> ELSE <<>>
        lits  == SelectSeq(ChainObjects(g, entity, identifiers), LAMBDA o : o.k = "lit")
        texts == [i \in DOMAIN lits |-> StrOf(lits[i])]
        u     == Dedup(own \o texts)
    IN  IF flip THEN Reverse(u) ELSE u

serialize_identifiers(w, g, flip, entity) ==
    PlainIdentifiers(TypedIdentifiers(w, Objects(g, entity, "skos:notation")),
                     PlainIdentifierSet(g, flip, entity))

serialize_common(w, g, flip, entity) ==
    serialize_description(
        serialize_url(
            serialize_title(
                serialize_identifiers(w, g, flip, entity), g, entity), g, entity), g, entity)

RECURSIVE DescriptiveObjects(_, _, _)
DescriptiveObjects(w, name, objs) ==
    IF w.exc # NoExc \/ objs = <<>> THEN w
    ELSE DescriptiveObjects(descriptive_text_element(w, name, Head(objs), EmptyDict),
                            name, Tail(objs))

RECURSIVE CommonDescriptive(_, _, _, _)
CommonDescriptive(w, g, entity, table) ==
    IF w.exc # NoExc \/ table = <<>> THEN w
    ELSE CommonDescriptive(
             DescriptiveObjects(w, Head(table)[2], Objects(g, entity, Head(table)[1])),
             g, entity, Tail(table))

serialize_common_descriptive_elements(w, g, entity) ==
    CommonDescriptive(w, g, entity, common_descriptive_elements)

RECURSIVE TypedDescriptive(_, _, _, _)
TypedDescriptive(w, g, entity, table) ==
    IF w.exc # NoExc \/ table = <<>> THEN w
    ELSE LET value == Value(g, entity, Head(table))
             w1 == IF Truthy(value)
                   THEN descriptive_text_element(w, "dc:description", value,
                                                 "xsi:type" :> Str(Head(table)))
                   ELSE w
         IN  TypedDescriptive(w1, g, entity, Tail(table))

serialize_typed_descriptive_elements(w, g, entity) ==
    TypedDescriptive(w, g, entity, typed_descriptive_elements)

Scheme_studyMode ==
    <<"h","t","t","p",":","/","/","x","c","r","i",".","o","r","g","/","p",
      "r","o","f","i","l","e","s","/","c","a","t","a","l","o","g","/","1",
      ".","2","/","s","t","u","d","y","M","o","d","e","/","n","o","t","a",
      "t","i","o","n">>

Scheme_attendanceMode ==
    <<"h","t","t","p",":","/","/","x","c","r","i",".","o","r","g","/","p",
      "r","o","f","i","l","e","s","/","c","a","t","a","l","o","g","/","1",
      ".","2","/","a","t","t","e","n","d","a","n","c","e","M","o","d","e",
      "/","n","o","t","a","t","i","o","n">>

Scheme_attendancePattern ==
    <<"h","t","t","p",":","/","/","x","c","r","i",".","o","r","g","/","p",
      "r","o","f","i","l","e","s","/","c","a","t","a","l","o","g","/","1",
      ".","2","/","a","t","t","e","n","d","a","n","c","e","P","a","t","t",
      "e","r","n","/","n","o","t","a","t","i","o","n">>

controlled_vocabularies ==
    << <<"xcri:studyMode", "xcri:studyMode", Scheme_studyMode>>,
       <<"xcri:attendanceMode", "xcri:attendanceMode", Scheme_attendanceMode>>,
       <<"xcri:attendancePattern", "xcri:attendancePattern", Scheme_attendancePattern>> >>

\* "for label in labels: content = value(node, label); if content: break":
\* the first true value, else the value of the last label.
RECURSIVE FirstLabel(_, _, _)
FirstLabel(g, node, ls) ==
    LET content == Value(g, node, Head(ls))
    IN  IF Truthy(content) \/ Len(ls) = 1 THEN content ELSE FirstLabel(g, node, Tail(ls))

\* A serialize_controlled_vocabularies that takes the first notation,
\* whatever its scheme
FirstNotation(g, value, datatype) == Value(g, value, "skos:notation")

\* "for notation in objects(value, skos:notation): if notation.datatype ==
\* datatype: break / else: notation = None"
SchemeNotation(g, value, datatype) ==
    LET matching == SelectSeq(Objects(g, value, "skos:notation"),
                              LAMBDA n : n.dt = datatype)
    IN  IF matching = <<>> THEN None ELSE Head(matching)

\* The body of the loop of serialize_controlled_vocabularies
ControlledVocabulary(w, g, presentation, entry) ==
    LET prop     == entry[1]
        name     == entry[2]
        datatype == entry[3]
        value    == Value(g, presentation, prop)
        notation == SchemeNotation(g, value, datatype)
        content  == FirstLabel(g, value, labels)
    IN  IF ~Truthy(value) THEN w
        ELSE IF ~(Truthy(notation) \/ Truthy(content)) THEN w
        ELSE textualElement(w, name,
                            IF Truthy(notation) THEN "identifier" :> StrOf(notation)
                                                ELSE EmptyDict,
                            IF Truthy(content) THEN StrOf(content) ELSE Str(""))

RECURSIVE ControlledVocabularies(_, _, _, _)
ControlledVocabularies(w, g, presentation, table) ==
    IF w.exc # NoExc \/ table = <<>> THEN w
    ELSE ControlledVocabularies(ControlledVocabulary(w, g, presentation, Head(table)),
                                g, presentation, Tail(table))

serialize_controlled_vocabularies(w, g, presentation) ==
    ControlledVocabularies(w, g, presentation, controlled_vocabularies)

\* A serialize_subjects that adds no term to the direct subjects
DirectSubjects(g, course) == Range(ChainObjects(g, course, subject_predicates))

\* The set "subjects" that serialize_subjects builds before it emits
SubjectSet(g, course) ==
    LET direct == Range(ChainObjects(g, course, subject_predicates))
        hier(s) == Range(Subjects(g, "skos:narrower", s))
                       \cup Range(Objects(g, s, "skos:broader"))
        pass1  == direct \cup UNION {hier(s) : s \in direct}
    IN  pass1 \cup UNION {Range(Objects(g, s, "skos:related")) : s \in pass1}

JacsPrefix == "http://jacs.dataincubator.org/"

JacsCodes == {"F300"}

\* subject.startswith('http://jacs.dataincubator.org/')
StartsWithJacs(subject) == \E c \in JacsCodes : subject.v = JacsPrefix \o c

\* The body of the emitting loop of serialize_subjects
SubjectElement(w, g, subject) ==
    IF subject.k = "lit"
    THEN IF Truthy(subject)
         THEN textualElement(w, "dc:subject", EmptyDict, StrOf(subject))
         ELSE w
    ELSE LET notation == Value(g, subject, "skos:notation")
             ty       == IF Truthy(notation) THEN TypeOfDatatype(notation)
                         ELSE [exc |-> NoExc, attrib |-> EmptyDict]
             a1       == IF Truthy(notation)
                         THEN Update(ty.attrib, "identifier" :> StrOf(notation))
                         ELSE ty.attrib
             content  == FirstLabel(g, subject, labels)
             attrib   == IF StartsWithJacs(subject)
                         THEN Update(a1, "xsi:type" :> Str("cdp:JACS3"))
                         ELSE a1
         IN  IF ty.exc # NoExc THEN Raise(w, ty.exc)
             ELSE IF attrib # EmptyDict \/ Truthy(content)
             THEN textualElement(w, "dc:subject", attrib,
                                 IF Truthy(content) THEN StrOf(content) ELSE Str(""))
             ELSE w

RECURSIVE SubjectElements(_, _, _)
SubjectElements(w, g, subjects) ==
    IF w.exc # NoExc \/ subjects = <<>> THEN w
    ELSE SubjectElements(SubjectElement(w, g, Head(subjects)), g, Tail(subjects))

serialize_subjects(w, g, flip, course) ==
    SubjectElements(w, g, SetIter(g, flip, SubjectSet(g, course)))

\* Literal.toPython(): the kind of Python value a literal converts to.  A
\* literal without datatype, of a datatype rdflib does not know, or whose
\* text is not in the datatype's lexical space, converts to a str.
WellFormedDates == {"2024-03-15"}

WellFormedDateTimes == {"2024-03-15T14:30:00"}

WellFormedIntegers == {"12"}

toPython(lit) ==
    IF lit.dt = XSD_date /\ lit.v \in WellFormedDates THEN "date"
    ELSE IF lit.dt = XSD_dateTime /\ lit.v \in WellFormedDateTimes THEN "datetime"
    ELSE IF lit.dt = XSD_integer /\ lit.v \in WellFormedIntegers THEN "int"
    ELSE "str"

\* The strings dateutil.parser.parse accepts, among those of the model
DateutilParses == WellFormedDates \cup WellFormedDateTimes

\* parsed.strftime("%A, %d %B %Y")
StrftimeDate(lex) ==
    CASE lex = "2024-03-15" -> "Friday, 15 March 2024"
      [] lex = "2024-03-15T14:30:00" -> "Friday, 15 March 2024"
      [] OTHER -> lex

\* parsed.strftime("%I:%M %p, %A, %d %B %Y")
StrftimeDateTime(lex) ==
    CASE lex = "2024-03-15" -> "12:00 AM, Friday, 15 March 2024"
      [] lex = "2024-03-15T14:30:00" -> "02:30 PM, Friday, 15 March 2024"
      [] OTHER -> lex

\* serialize_date when graph.value(entity, prop) is a Literal
DateOfLiteral(w, dt, name) ==
    LET py      == toPython(dt)
        native  == py \in {"date", "datetime"}
        content == IF py = "str" THEN dt ELSE None
    IN  IF ~(native \/ Truthy(content)) THEN w
        ELSE IF ~Truthy(content)
        \* dtf is a datetime.date: dateutil.parser.parse takes a string or a
        \* stream and raises TypeError, which "except ValueError" lets through.
        THEN Raise(w, "TypeError")
        ELSE textualElement(w, name, EmptyDict, StrOf(content))

\* serialize_date when graph.value(entity, prop) is not a Literal
DateOfResource(w, g, dt, name) ==
    LET first   == Value(g, dt, "time:inXSDDateTime")
        dtf     == IF Truthy(first) THEN first ELSE Value(g, dt, "rdf:value")
        label   == FirstLabel(g, dt, labels)
        content == IF Truthy(label) THEN StrOf(label)
                   ELSE IF dtf.v \notin DateutilParses THEN StrOf(dtf)
                   ELSE IF dtf.dt = XSD_date THEN Str(StrftimeDate(dtf.v))
                   ELSE IF dtf.dt = XSD_dateTime THEN Str(StrftimeDateTime(dtf.v))
                   ELSE Str("")
    IN  IF ~(Truthy(dtf) \/ Truthy(label)) THEN w
        ELSE textualElement(w, name,
                            IF Truthy(dtf) THEN "dtf" :> StrOf(dtf) ELSE EmptyDict,
                            content)

serialize_date(w, g, entity, prop, name) ==
    LET dt == Value(g, entity, prop)
    IN  IF w.exc # NoExc THEN w
        ELSE IF dt.k = "lit" THEN DateOfLiteral(w, dt, name)
        ELSE DateOfResource(w, g, dt, name)

-----------------------------------------------------------------------------
(* The producers of the Lazy Document Assembler.  A producer is a Python    *)
(* generator; its frame holds where it is suspended (pc) and its locals:    *)
(*   ent    the entity it serializes                                        *)
(*   items  what is left of the sequence its "for" loop runs over           *)
(*   wa     with_address of serialize_location                              *)
(*   cats   catalogs of catalog_content                                     *)
(*   pcs    provider_courses of catalog_content: entries [provider,         *)
(*          courses] in the dict's insertion order                          *)

RdfType == "rdf:type"

XcriCatalog == URIRef("xcri:catalog")

XcriCourse == URIRef("xcri:course")

Frame(id, kind, ent, items) ==
    [id |-> id, kind |-> kind, ent |-> ent, pc |-> "start", items |-> items,
     wa |-> None, cats |-> {}, pcs |-> <<>>]

NoChild == [kind |-> "none", ent |-> None, items |-> <<>>]

Child(kind, ent, items) == [kind |-> kind, ent |-> ent, items |-> items]

\* What running a producer up to its next suspension gives: its frame, the
\* writer, and how it stopped: "yield" (with the producer yielded, or NoChild
\* for any other value), "stop" (StopIteration) or "loop" (still inside a
\* while loop of the same next() call).
Ran(f, w, outcome, child) == [f |-> f, w |-> w, outcome |-> outcome, child |-> child]

\* ' '.join(map(' '.join, self.xsi_schema_locations.items()))
xsi_schema_locations ==
    "http://xcri.org/profiles/1.2/catalog http://www.xcri.co.uk/bindings/xcri_cap_1_2.xsd "
    \o "http://xcri.org/profiles/1.2/catalog/terms http://www.xcri.co.uk/bindings/xcri_cap_terms_1_2.xsd "
    \o "http://xcri.co.uk http://www.xcri.co.uk/bindings/coursedataprogramme.xsd "
    \o "http://www.w3.org/2003/01/geo/wgs84_pos http://xcri-dev.conted.ox.ac.uk/geo.xsd"

\* The attributes of the catalog element; now is utcnow().isoformat() + '+00:00'.
CatalogAttrib(now) ==
    LET decl == [a \in {"xmlns:" \o p : p \in DOMAIN xmlns} |->
                    xmlns[CHOOSE p \in DOMAIN xmlns : "xmlns:" \o p = a]]
    IN  Update(decl, ("xsi:schemaLocation" :> Str(xsi_schema_locations))
                         @@ ("generated" :> Str(now)))

\* A producer that opens an element, yields the producer of its content and
\* closes the element: catalog_element, provider_element, course_element,
\* presentation_element.
ElementProducer(f, w, name, attrs, content) ==
    IF f.pc = "start"
    THEN Ran([f EXCEPT !.pc = "end"], startElement(w, name, attrs), "yield",
             Child(content, f.ent, f.items))
    ELSE Ran(f, endElement(w, name), "stop", NoChild)

\* "for x in items: yield self.<kind>(xg, x)"
ForEach(f, w, kind) ==
    IF f.items = <<>> THEN Ran(f, w, "stop", NoChild)
    ELSE Ran([f EXCEPT !.pc = "iter", !.items = Tail(@)], w, "yield",
             Child(kind, Head(f.items), <<>>))

\* The body of serialize_location after its while loop
LocationElement(w, g, address) ==
    LET present == SelectSeq(address_elements,
                             LAMBDA e : Truthy(Value(g, address, e[1])))
        Emit[i \in 0..Len(present)] ==
            IF i = 0 THEN startElement(w, "mlo:location", EmptyDict)
            ELSE textualElement(Emit[i - 1], present[i][2], EmptyDict,
                                StrOf(Value(g, address, present[i][1])))
    IN  IF present = <<>> THEN w
        ELSE endElement(Emit[Len(present)], "mlo:location")

\* The entity whose address one turn of the while loop of serialize_location
\* looks up.
AddressHolder(entity, with_address) == entity

\* One turn of the while loop of serialize_location, run by the producer f
\* that called it; "next" is where f goes on after the call.
LocationTurn(f, w, g, next) ==
    IF ~Truthy(f.wa)
    THEN Ran([f EXCEPT !.pc = next], w, "yield", NoChild)
    ELSE LET address == Value(g, AddressHolder(f.ent, f.wa), "v:adr")
         IN  IF Truthy(address)
             THEN Ran([f EXCEPT !.pc = next], LocationElement(w, g, address),
                      "yield", NoChild)
             ELSE Ran([f EXCEPT !.wa = Value(g, f.wa, "spatialrelations:within")],
                      w, "loop", NoChild)

\* provider_courses[provider].add(member)
AddCourse(pcs, provider, member) ==
    IF \E i \in DOMAIN pcs : pcs[i].provider = provider
    THEN [i \in DOMAIN pcs |->
            IF pcs[i].provider = provider
            THEN [pcs[i] EXCEPT !.courses = @ \cup {member}] ELSE pcs[i]]
    ELSE Append(pcs, [provider |-> provider, courses |-> {member}])

\* "for member in graph.objects(catalogs.pop(), skos:member)", on a frame
\* from which the catalog has been popped
RECURSIVE Members(_, _, _)
Members(f, g, members) ==
    IF members = <<>> THEN f
    ELSE LET member == Head(members)
             f1 == IF Has(g, member, RdfType, XcriCourse)
                   THEN [f EXCEPT !.pcs = AddCourse(@, ValueSubject(g, "mlo:offers", member),
                                                    member)]
                   ELSE IF Has(g, member, RdfType, XcriCatalog)
                   THEN [f EXCEPT !.cats = @ \cup {member}]
                   ELSE f
         IN  Members(f1, g, Tail(members))

\* itertools.chain(*provider_courses.values())
RECURSIVE ChainCourses(_, _, _)
ChainCourses(g, flip, pcs) ==
    IF pcs = <<>> THEN <<>>
    ELSE SetIter(g, flip, Head(pcs).courses) \o ChainCourses(g, flip, Tail(pcs))

\* "for provider, courses in provider_courses.items(): yield
\* self.provider_element(xg, provider, courses)"
ForEachProvider(f, w, g, flip) ==
    IF f.pcs = <<>> THEN Ran(f, w, "stop", NoChild)
    ELSE Ran([f EXCEPT !.pc = "providers", !.pcs = Tail(@)], w, "yield",
             Child("provider_element", Head(f.pcs).provider,
                   SetIter(g, flip, Head(f.pcs).courses)))

\* One turn of "while catalogs" of catalog_content, or what follows the loop
CatalogTurn(f, w, g, flip, simp) ==
    IF f.cats # {}
    THEN LET c == Head(SetIter(g, flip, f.cats))
         IN  Ran(Members([f EXCEPT !.cats = @ \ {c}], g, Objects(g, c, "skos:member")),
                 w, "loop", NoChild)
    ELSE IF simp
    THEN Ran([f EXCEPT !.pc = "end"], w, "yield",
             Child("provider_element", Value(g, f.ent, "dcterms:publisher"),
                   ChainCourses(g, flip, f.pcs)))
    ELSE ForEachProvider(f, w, g, flip)

\* The calls that presentation_content makes before its loop over the venues
PresentationRules(w, g, flip, presentation) ==
    LET w1 == serialize_common(w, g, flip, presentation)
        w2 == serialize_common_descriptive_elements(w1, g, presentation)
        w3 == serialize_date(w2, g, presentation, "mlo:start", "mlo:start")
        w4 == serialize_date(w3, g, presentation, "xcri:end", "xcri:end")
        w5 == serialize_date(w4, g, presentation, "xcri:applyFrom", "xcri:applyFrom")
        w6 == serialize_date(w5, g, presentation, "xcri:applyUntil", "xcri:applyUntil")
        w7 == serialize_places(w6, g, presentation)
        w8 == serialize_applyTo(w7, g, presentation)
    IN  serialize_controlled_vocabularies(w8, g, presentation)

\* next(producer) for the producer of frame f, up to its next suspension or
\* to the head of a while loop.  root is self.catalog, now the clock.
Resume(f, w, g, flip, simp, root, now) ==
    CASE f.kind = "_serialize" ->
            IF f.pc = "start"
            THEN Ran([f EXCEPT !.pc = "end"],
                     startDocument([w EXCEPT !.depth = 0, !.chars = FALSE]),
                     "yield", Child("catalog_element", root, <<>>))
            ELSE Ran(f, w, "stop", NoChild)
      [] f.kind = "catalog_element" ->
            ElementProducer(f, w, "xcri:catalog", CatalogAttrib(now), "catalog_content")
      [] f.kind = "catalog_content" ->
            IF f.pc = "start"
            THEN Ran([f EXCEPT !.pc = "collect"], serialize_common(w, g, flip, f.ent),
                     "yield", NoChild)
            ELSE IF f.pc = "collect"
            THEN Ran([f EXCEPT !.pc = "flatten", !.cats = {f.ent}, !.pcs = <<>>],
                     w, "loop", NoChild)
            ELSE IF f.pc = "providers" THEN ForEachProvider(f, w, g, flip)
            ELSE Ran(f, w, "stop", NoChild)
      [] f.kind = "provider_element" ->
            ElementProducer(f, w, "xcri:provider", EmptyDict, "provider_content")
      [] f.kind = "provider_content" ->
            IF f.pc = "start" /\ Truthy(f.ent)
            THEN Ran([f EXCEPT !.pc = "location"], serialize_common(w, g, flip, f.ent),
                     "yield", NoChild)
            ELSE IF f.pc = "location"
            THEN Ran([f EXCEPT !.pc = "walk", !.wa = f.ent], w, "loop", NoChild)
            ELSE ForEach(f, w, "course_element")
      [] f.kind = "course_element" ->
            ElementProducer(f, w, "xcri:course", EmptyDict, "course_content")
      [] f.kind = "course_content" ->
            IF f.pc = "start"
            THEN Ran([f EXCEPT !.pc = "descriptive"], serialize_common(w, g, flip, f.ent),
                     "yield", NoChild)
            ELSE IF f.pc = "descriptive"
            THEN Ran([f EXCEPT !.pc = "typed"],
                     serialize_common_descriptive_elements(w, g, f.ent), "yield", NoChild)
            ELSE IF f.pc = "typed"
            THEN Ran([f EXCEPT !.pc = "subjects"],
                     serialize_typed_descriptive_elements(w, g, f.ent), "yield", NoChild)
            ELSE IF f.pc = "subjects"
            THEN Ran([f EXCEPT !.pc = "iter", !.items = Objects(g, f.ent, "mlo:specifies")],
                     serialize_subjects(w, g, flip, f.ent), "yield", NoChild)
            ELSE ForEach(f, w, "presentation_element")
      [] f.kind = "presentation_element" ->
            ElementProducer(f, w, "xcri:presentation", EmptyDict, "presentation_content")
      [] f.kind = "presentation_content" ->
            IF f.pc = "start"
            THEN ForEach([f EXCEPT !.items = Objects(g, f.ent, "xcri:venue")],
                         PresentationRules(w, g, flip, f.ent), "venue_element")
            ELSE ForEach(f, w, "venue_element")
      [] f.kind = "venue_element" ->
            IF f.pc = "start"
            THEN Ran([f EXCEPT !.pc = "location"],
                     serialize_common(
                         startElement(startElement(w, "xcri:venue", EmptyDict),
                                      "xcri:provider", EmptyDict),
                         g, flip, f.ent),
                     "yield", NoChild)
            ELSE IF f.pc = "location"
            THEN Ran([f EXCEPT !.pc = "walk", !.wa = f.ent], w, "loop", NoChild)
            ELSE Ran(f, endElement(endElement(w, "xcri:provider"), "xcri:venue"),
                     "stop", NoChild)

\* A while loop of the running next() call goes on: the loop of
\* serialize_location or the loop of catalog_content.
Turn(f, w, g, flip, simp) ==
    IF f.pc = "walk"
    THEN LocationTurn(f, w, g, IF f.kind = "venue_element" THEN "close" ELSE "courses")
    ELSE CatalogTurn(f, w, g, flip, simp)

-----------------------------------------------------------------------------
(* The graphs of the model: one catalog with courses, of which the first    *)
(* has a presentation with a venue.                                         *)

MaxCourses == 2

MaxChain == 1

Root == URIRef("catalog1")

SubCatalog == URIRef("catalog2")

Course(i) == URIRef("course" \o ToString(i))

Provider(i) == URIRef("provider" \o ToString(i))

\* The venue, Place(0), and the places that contain it
Place(i) == URIRef("place" \o ToString(i))

Address(i) == URIRef("address" \o ToString(i))

Presentation == URIRef("presentation1")

Nestings == {"flat", "nested", "cyclic"}

Faults == {"none", "xhtml", "malformed", "typed-date", "bare-notation"}

XhtmlDiv ==
    [prefix |-> NoPrefix, local |-> "div", nsmap |-> (NoPrefix :> URI_html),
     attrib |-> EmptyDict, text |-> Str("Hello"), tail |-> Str(""), children |-> <<>>]

CatalogTriples(nesting) ==
    << <<Root, RdfType, XcriCatalog>>, <<Root, "dcterms:title", Literal("Catalogue", NoDatatype)>> >>
    \o (IF nesting = "flat" THEN <<>>
        ELSE << <<SubCatalog, RdfType, XcriCatalog>>, <<Root, "skos:member", SubCatalog>> >>)
    \o (IF nesting = "cyclic" THEN << <<SubCatalog, "skos:member", Root>> >> ELSE <<>>)

\* Course i: the last course of a nested catalog is a member of the
\* sub-catalog; odd courses are offered by provider 1, even ones by provider 2.
CourseTriples(i, nc, nesting) ==
    << <<Course(i), RdfType, XcriCourse>>,
       <<(IF nesting # "flat" /\ i = nc THEN SubCatalog ELSE Root), "skos:member", Course(i)>>,
       <<Provider(2 - (i % 2)), "mlo:offers", Course(i)>>,
       <<Course(i), "dcterms:title", Literal("Course " \o ToString(i), NoDatatype)>> >>

RECURSIVE AllCourses(_, _, _)
AllCourses(i, nc, nesting) ==
    IF i > nc THEN <<>>
    ELSE CourseTriples(i, nc, nesting) \o AllCourses(i + 1, nc, nesting)

ProviderTriples(publisher) ==
    (IF publisher THEN << <<Root, "dcterms:publisher", Provider(1)>> >> ELSE <<>>)
    \o << <<Provider(1), "rdfs:label", Literal("University", NoDatatype)>>,
          <<Provider(1), "foaf:homepage", URIRef("http://example.org/")>>,
          <<Provider(1), "v:adr", Address(0)>>,
          <<Address(0), "v:locality", Literal("Oxford", NoDatatype)>>,
          <<Address(0), "v:postal-code", Literal("OX1 2JA", NoDatatype)>> >>

PresentationTriples(fault) ==
    << <<Course(1), "mlo:specifies", Presentation>>,
       <<Course(1), "dc:subject", Literal("History", NoDatatype)>>,
       <<Presentation, "mlo:start",
         Literal("2024-03-15", IF fault = "typed-date" THEN XSD_date ELSE NoDatatype)>>,
       <<Presentation, "mlo:places", Literal("20", NoDatatype)>>,
       <<Presentation, "xcri:venue", Place(0)>> >>
    \o (CASE fault = "xhtml" ->
                << <<Course(1), "dcterms:description",
                     Fragment("<div>Hello</div>", Fragment_XHTML, XhtmlDiv)>> >>
          [] fault = "malformed" ->
                << <<Course(1), "dcterms:description", Literal("<div>Hello", Fragment_XHTML)>> >>
          [] fault = "bare-notation" ->
                << <<Course(1), "skos:notation", Literal("H101", NoDatatype)>> >>
          [] OTHER -> <<>>)

\* The venue is within place 1, which is within place 2, ...; the place
\* with the address, if any, is place addrAt; with loopback the last place
\* is within the venue.
RECURSIVE ChainTriples(_, _)
ChainTriples(i, chain) ==
    IF i >= chain THEN <<>>
    ELSE << <<Place(i), "spatialrelations:within", Place(i + 1)>> >>
         \o ChainTriples(i + 1, chain)

VenueTriples(chain, addrAt, loopback) ==
    << <<Place(0), "rdfs:label", Literal("Lecture Theatre", NoDatatype)>> >>
    \o ChainTriples(0, chain)
    \o (IF loopback THEN << <<Place(chain), "spatialrelations:within", Place(0)>> >> ELSE <<>>)
    \o (IF addrAt >= 0
        THEN << <<Place(addrAt), "v:adr", Address(1)>>,
                <<Address(1), "v:street-address", Literal("1 High Street", NoDatatype)>> >>
        ELSE <<>>)

CatalogGraph(nc, nesting, publisher, chain, addrAt, loopback, fault) ==
    CatalogTriples(nesting) \o AllCourses(1, nc, nesting) \o ProviderTriples(publisher)
    \o PresentationTriples(fault) \o VenueTriples(chain, addrAt, loopback)

-----------------------------------------------------------------------------
(* The Lazy Document Assembler: serialize(stream) and generator()           *)

EntryPoints == {"serialize", "generator"}

\* A drain that takes its producers from the other end of the stack
Bottom(s) == s[1]

\* stack[-1]
Top(s) == s[Len(s)]

\* A generator() that forgets to empty the buffer
NotTruncated(out) == out

\* self.stream after "yield self.stream.getvalue(); seek(0); truncate()"
Truncated(out) == <<>>

\* self.catalog
Catalog(g) == ValueSubject(g, RdfType, XcriCatalog)

\* datetime.datetime.utcnow(): the second entry point runs later
Now == IF plan = <<>> THEN "2024-01-01T00:00:02" ELSE "2024-01-01T00:00:01"

Writer == [out |-> stream, depth |-> xg.depth, chars |-> xg.chars, exc |-> NoExc]

\* The rest of one turn of "while stack" once next(stack[-1]) has been run
\* as far as r says; ran is what the log records of it, before the states
\* that the loop r is in has left behind.
Handle(r, ran, before) ==
    LET below    == SubSeq(stack, 1, Len(stack) - 1)
        pushed   == r.outcome = "yield" /\ r.child.kind # "none"
        newstack == IF r.outcome = "stop" THEN below
                    ELSE IF pushed
                    THEN below \o <<r.f, Frame(nextid, r.child.kind, r.child.ent, r.child.items)>>
                    ELSE Append(below, r.f)
        events   == ran
                    \o (IF pushed THEN <<[ev |-> "new", id |-> nextid, by |-> r.f.id]>> ELSE <<>>)
                    \o (IF r.outcome = "stop" THEN <<[ev |-> "done", id |-> r.f.id, by |-> 0]>>
                        ELSE <<>>)
    IN  /\ xg' = [depth |-> r.w.depth, chars |-> r.w.chars]
        /\ seen' = before
        /\ UNCHANGED <<graph, simple, hashflip, plan, call>>
        /\ IF r.w.exc # NoExc
           THEN \* the exception leaves serialize() or generator()
                /\ stack' = stack
                /\ log' = log \o ran
                /\ nextid' = nextid
                /\ stream' = r.w.out
                /\ sink' = IF mode = "serialize" THEN r.w.out ELSE sink
                /\ lost' = IF mode = "generator" THEN r.w.out ELSE lost
                /\ chunks' = chunks
                /\ status' = [status EXCEPT ![mode] = "raised"]
                /\ mode' = "idle"
           ELSE /\ stack' = newstack
                /\ log' = log \o events
                /\ nextid' = IF pushed THEN nextid + 1 ELSE nextid
                /\ lost' = lost
                /\ IF mode = "serialize"
                   THEN /\ stream' = r.w.out
                        /\ sink' = r.w.out
                        /\ chunks' = chunks
                        /\ status' = IF newstack = <<>>
                                     THEN [status EXCEPT ![mode] = "returned"] ELSE status
                        /\ mode' = IF newstack = <<>> THEN "idle" ELSE mode
                   ELSE /\ sink' = sink
                        /\ IF r.outcome = "loop"
                           THEN stream' = r.w.out /\ chunks' = chunks
                           ELSE stream' = Truncated(r.w.out) /\ chunks' = Append(chunks, r.w.out)
                        /\ status' = status
                        /\ mode' = mode

\* An entry point is called on a fresh serializer.
Start(entry) ==
    /\ mode = "idle"
    /\ plan # <<>>
    /\ Head(plan) = entry
    /\ plan' = Tail(plan)
    /\ mode' = entry
    /\ status' = [status EXCEPT ![entry] = "running"]
    /\ stack' = <<Frame(1, "_serialize", None, <<>>)>>
    /\ nextid' = 2
    /\ log' = <<>>
    /\ seen' = {}
    /\ stream' = <<>>
    /\ xg' = [depth |-> 0, chars |-> FALSE]
    /\ sink' = IF entry = "serialize" THEN <<>> ELSE sink
    /\ UNCHANGED <<graph, simple, hashflip, chunks, lost, call>>

StartSerialize == Start("serialize")

StartGenerator == Start("generator")

InLoop(f) == f.pc \in {"walk", "flatten"}

\* One turn of "while stack" of the running entry point: next(stack[-1])
Step(entry) ==
    /\ mode = entry
    /\ stack # <<>>
    /\ ~InLoop(Top(stack))
    /\ Handle(Resume(Top(stack), Writer, graph, hashflip, simple, Catalog(graph), Now),
              <<[ev |-> "run", id |-> Top(stack).id, by |-> 0]>>, {})

SerializeStep == Step("serialize")

GeneratorStep == Step("generator")

\* The running next() call makes one more turn of the while loop it is in.
LoopTurn ==
    /\ mode \in EntryPoints
    /\ stack # <<>>
    /\ InLoop(Top(stack))
    /\ Handle(Turn(Top(stack), Writer, graph, hashflip, simple), <<>>,
              seen \cup {Top(stack)})

\* generator() after "while stack": the last "yield self.stream.getvalue()"
FinalChunk ==
    /\ mode = "generator"
    /\ stack = <<>>
    /\ chunks' = Append(chunks, stream)
    /\ status' = [status EXCEPT !["generator"] = "returned"]
    /\ mode' = "idle"
    /\ UNCHANGED <<graph, simple, hashflip, plan, stack, xg, stream, sink, lost, log,
                   nextid, seen, call>>

NoCall == [fn |-> "none", done |-> TRUE]

Init ==
    /\ \E nc \in 1..MaxCourses, nesting \in Nestings, publisher \in BOOLEAN,
          chain \in 0..MaxChain, fault \in Faults :
          \E addrAt \in -1..chain, loopback \in {FALSE} \cup {chain > 0} :
             graph = CatalogGraph(nc, nesting, publisher, chain, addrAt, loopback, fault)
    /\ simple \in BOOLEAN
    /\ hashflip \in BOOLEAN
    /\ plan \in {<<"serialize", "generator">>, <<"generator", "serialize">>}
    /\ mode = "idle"
    /\ stack = <<>>
    /\ xg = [depth |-> 0, chars |-> FALSE]
    /\ stream = <<>>
    /\ sink = <<>>
    /\ chunks = <<>>
    /\ status = [e \in EntryPoints |-> "idle"]
    /\ lost = <<>>
    /\ log = <<>>
    /\ nextid = 1
    /\ seen = {}
    /\ call = NoCall

Next ==
    \/ StartSerialize
    \/ StartGenerator
    \/ SerializeStep
    \/ GeneratorStep
    \/ LoopTurn
    \/ FinalChunk

Spec == Init /\ [][Next]_vars

-----------------------------------------------------------------------------
(* Properties of the assembler                                              *)

Ended(entry) == status[entry] \in {"returned", "raised"}

BothEnded == Ended("serialize") /\ Ended("generator")

\* An output with the value of every 'generated' attribute blanked
WithoutTimestamp(out) ==
    [i \in DOMAIN out |->
        IF "generated" \in DOMAIN out[i].attrs
        THEN [out[i] EXCEPT !.attrs = [@ EXCEPT !["generated"] = Str("")]]
        ELSE out[i]]

LastRun == CHOOSE j \in DOMAIN log :
               log[j].ev = "run" /\ \A k \in (j + 1)..Len(log) : log[k].ev # "run"

\* Where the log records that producer p was created; the first producer is
\* on the stack from the start.
CreatedAt(p) == IF p = 1 THEN 0 ELSE CHOOSE i \in DOMAIN log : log[i].ev = "new" /\ log[i].id = p

\* C2: the producer that is resumed is the innermost unfinished one: every
\* producer created since it was created -- the producers it yielded and
\* their descendants -- has finished before it runs again, so that a later
\* sibling never runs before an earlier one has finished.
C2_OnlyInnermostProducerRuns ==
    (\E j \in DOMAIN log : log[j].ev = "run") =>
        LET j == LastRun
            since == {i \in (CreatedAt(log[j].id) + 1)..(j - 1) : log[i].ev = "new"}
            done  == {log[k].id : k \in {x \in 1..(j - 1) : log[x].ev = "done"}}
        IN  {log[i].id : i \in since} \subseteq done

\* A producer runs again after two producers it yielded, and a producer that
\* one of them yielded, have finished.
C2_Witness ==
    \E j \in (Len(log) - 1)..Len(log) :
        /\ j > 2
        /\ log[j].ev = "run"
        /\ log[j - 1].ev = "done"
        /\ \E a, b, c \in 1..(j - 1) :
              /\ a < b
              /\ log[a].ev = "new" /\ log[a].by = log[j].id
              /\ log[b].ev = "new" /\ log[b].by = log[j].id
              /\ log[b].id = log[j - 1].id
              /\ log[c].ev = "new" /\ log[c].by = log[a].id

\* The entities that contain e: those reached from e along 'within'
RECURSIVE Containers(_, _, _)
Containers(g, S, n) ==
    LET more == S \cup {t[3] : t \in {x \in Range(g) :
                                       x[2] = "spatialrelations:within" /\ x[1] \in S}}
    IN  IF n = 0 \/ more = S THEN S ELSE Containers(g, more, n - 1)

HasPopulatedAddress(g, e) ==
    \E i \in DOMAIN address_elements :
        Truthy(Value(g, Value(g, e, "v:adr"), address_elements[i][1]))

\* C5: when the venue has no address of its own and an entity that contains
\* it has one with a populated component, the document that serialize wrote
\* holds the venue's location with that component.
C5_AddressOfContainingEntityIsEmitted ==
    (/\ status["serialize"] = "returned"
     /\ ~Truthy(Value(graph, Place(0), "v:adr"))
     /\ \E e \in Containers(graph, {Place(0)}, Len(graph)) : HasPopulatedAddress(graph, e))
    => \E i \in DOMAIN sink :
          /\ sink[i].t = "start" /\ sink[i].name = "mlo:location"
          /\ sink[i + 2].t = "start" /\ sink[i + 2].name = "mlo:address"
          /\ sink[i + 3].text = Str("1 High Street")

\* C8: the while loops of serialize_location and of catalog_content end after
\* finitely many turns, whatever the graph: a loop never comes back to a
\* state it has been in during the same call.  (The loops read nothing but
\* their locals and the graph, which does not change: a loop that comes back
\* to a state goes round for ever, and the entry point never ends.)
C8_NoLoopComesBackToAState ==
    (stack # <<>> /\ InLoop(Top(stack))) => Top(stack) \notin seen

\* What the entry point has written so far, from the first write on, in
\* pieces: the sink of serialize; the chunks of generator() and then what it
\* has buffered
Written(entry) ==
    IF entry = "serialize" THEN <<sink>>
    ELSE Append(chunks, IF mode = "generator" THEN stream ELSE lost)

\* The start and end tags of out
Tags(out) == SelectSeq(out, LAMBDA e : e.t \in {"start", "end"})

\* The elements that are started and not ended after tags[i..], outermost
\* first, when open are those before; and whether every end tag so far has
\* ended the element started last, by its name
RECURSIVE OpenAfter(_, _, _)
OpenAfter(tags, i, open) ==
    IF i > Len(tags) THEN [nested |-> TRUE, open |-> open]
    ELSE IF tags[i].t = "start" THEN OpenAfter(tags, i + 1, Append(open, tags[i].name))
    ELSE IF open # <<>> /\ open[Len(open)] = tags[i].name
    THEN OpenAfter(tags, i + 1, SubSeq(open, 1, Len(open) - 1))
    ELSE [nested |-> FALSE, open |-> open]

\* The same after the pieces k.. of what has been written
RECURSIVE OpenElements(_, _, _)
OpenElements(pieces, k, o) ==
    IF k > Len(pieces) \/ ~o.nested THEN o
    ELSE OpenElements(pieces, k + 1, OpenAfter(Tags(pieces[k]), 1, o.open))

\* C11, in a state: while an entry point runs, the writer's depth is the
\* number of elements started and not ended, and is not negative; every end
\* tag written ends the element started last, under its name; and in the
\* document of an entry point that has returned no element is left open.
\* (What an entry point has written does not change once it has ended: it
\* is looked at while the entry point runs and when none runs.)
DepthIsOpenElements ==
    \A e \in EntryPoints :
        (mode = e \/ (mode = "idle" /\ Ended(e))) =>
            LET o == OpenElements(Written(e), 1, [nested |-> TRUE, open |-> <<>>])
            IN  /\ o.nested
                /\ mode = e => (xg.depth = Len(o.open) /\ xg.depth >= 0)
                /\ status[e] = "returned" => o.open = <<>>

\* C11, in a step: the step in which an entry point returns, the work stack
\* drained, leaves the writer at depth 0.
ReturnsAtDepthZero ==
    \A e \in EntryPoints :
        (status[e] # "returned" /\ status'[e] = "returned") => xg'.depth = 0

\* C11: the writer's depth is the number of open elements and never negative,
\* elements are ended in the reverse order of their start with the same
\* name, and when the work stack has been drained the depth is 0 and every
\* element opened by a producer has been closed.
C11_DepthIsOpenElementsAndZeroAtEnd ==
    []DepthIsOpenElements /\ [][ReturnsAtDepthZero]_vars

\* serialize has returned a document with a venue and its location in it; a
\* run of generator() is still to come, so the writer is the one serialize
\* left, at depth 0.
C11_Witness ==
    /\ status["serialize"] = "returned"
    /\ mode = "idle"
    /\ plan # <<>>
    /\ xg.depth = 0
    /\ \E i, j \in DOMAIN sink :
          /\ i < j
          /\ sink[i].t = "end" /\ sink[i].name = "mlo:location"
          /\ sink[j].t = "end" /\ sink[j].name = "xcri:venue"

-----------------------------------------------------------------------------
(* The rules on their own.  One rule is called once, on a writer that is    *)
(* inside an open element, with an input it can be given:                   *)
(*   call   [fn, done, uri, obj, res, exc]: the rule, whether it has been   *)
(*          run, the argument of xsi_type, the term handed to               *)
(*          descriptive_text_element, what xsi_type returned, and the       *)
(*          exception that left the call;                                   *)
(*   graph  the graph the rule queries;                                     *)
(*   stream what the rule has written.                                      *)

MaxLocalLen == 2

MaxNotations == 2

MaxDepth == 2

\* The characters after a namespace in the identifiers handed to xsi_type
Alphabet == {"a", "1", "-", "/"}

LocalParts == UNION {[1..n -> Alphabet] : n \in 0..MaxLocalLen}

\* A URI that ends in no valid local name
URI_unresolvable == <<"h","t","t","p",":","/","/","x","/","1">>

\* A URI of no namespace of XMLNS
URI_other == <<"u","r","n",":","x",":">>

XsiBases ==
    {XMLNS[i][2] : i \in DOMAIN XMLNS} \cup {XMLNS[i][1] : i \in DOMAIN XMLNS}
    \cup {<<>>, URI_unresolvable, URI_other}

XsiInputs == {b \o l : b \in XsiBases, l \in LocalParts}

\* The sequences of at most n elements of S
SeqsUpTo(S, n) == UNION {[1..k -> S] : k \in 0..n}

\* The triples that give node the notations ns, in this order
NotationTriples(node, ns) == [j \in DOMAIN ns |-> <<node, "skos:notation", ns[j]>>]

Mode == URIRef("mode1")

\* The presentation has a value for the i-th controlled vocabulary; the value
\* node has notations under the vocabulary's scheme ("FT") or under the next
\* vocabulary's scheme ("XX"), and may have a label.
VocabularyGraphs ==
    UNION {{<< <<Presentation, controlled_vocabularies[i][1], Mode>> >>
               \o NotationTriples(Mode, ns) \o label :
               ns \in SeqsUpTo({Literal("FT", controlled_vocabularies[i][3]),
                                Literal("XX", controlled_vocabularies[(i % 3) + 1][3])},
                               MaxNotations),
               label \in {<<>>,
                          << <<Mode, "rdfs:label", Literal("", NoDatatype)>> >>,
                          << <<Mode, "rdfs:label", Literal("Full time", NoDatatype)>> >>,
                          << <<Mode, "dc:title", Literal("Full time", NoDatatype)>> >>}} :
           i \in DOMAIN controlled_vocabularies}

When == URIRef("when1")

DateLiterals ==
    {Literal("2024-03-15", XSD_date),
     Literal("2024-03-15T14:30:00", XSD_dateTime),
     Literal("2024-03-15", NoDatatype),
     Literal("next spring", NoDatatype),
     Literal("soon", XSD_date),
     Literal("12", XSD_integer),
     Literal("", NoDatatype)}

\* mlo:start is absent, a literal, or a node with time:inXSDDateTime,
\* rdf:value and a label, each present or not.
DateGraphs ==
    {<<>>}
    \cup {<< <<Presentation, "mlo:start", lit>> >> : lit \in DateLiterals}
    \cup {<< <<Presentation, "mlo:start", When>> >> \o a \o b \o c :
            a \in {<<>>,
                   << <<When, "time:inXSDDateTime",
                        Literal("2024-03-15T14:30:00", XSD_dateTime)>> >>,
                   << <<When, "time:inXSDDateTime", Literal("soon", XSD_dateTime)>> >>},
            b \in {<<>>,
                   << <<When, "rdf:value", Literal("2024-03-15", XSD_date)>> >>,
                   << <<When, "rdf:value", Literal("2024-03-15", NoDatatype)>> >>},
            c \in {<<>>, << <<When, "rdfs:label", Literal("Spring term", NoDatatype)>> >>}}

\* What a notation's datatype can be: a scheme in a namespace of XMLNS, a
\* scheme xsi_type cannot compact, and none at all.
NotationKinds ==
    {Literal("H101", URI_dc \o <<"c","o","d","e">>),
     Literal("H102", URI_unresolvable),
     Literal("H103", NoDatatype)}

IdentifierGraphs ==
    {NotationTriples(Course(1), ns) \o id :
        ns \in SeqsUpTo(NotationKinds, MaxNotations),
        id \in {<<>>, << <<Course(1), "dc:identifier", Literal("ID1", NoDatatype)>> >>}}

Subject(i) == URIRef("subject" \o ToString(i))

Relations == {"none", "broader", "narrower", "related"}

\* b is related to a as r says
Edge(r, a, b) ==
    CASE r = "broader"  -> << <<a, "skos:broader", b>> >>
      [] r = "narrower" -> << <<b, "skos:narrower", a>> >>
      [] r = "related"  -> << <<a, "skos:related", b>> >>
      [] OTHER          -> <<>>

\* The course has the direct subject 1; subject 2 is related to it, and
\* subject 3 to subject 2; subject 1 may have a notation.
SubjectGraphs ==
    {<< <<Course(1), "dcterms:subject", Subject(1)>> >>
        \o Edge(r1, Subject(1), Subject(2)) \o Edge(r2, Subject(2), Subject(3))
        \o [i \in 1..3 |-> <<Subject(i), "skos:prefLabel",
                             Literal("Subject " \o ToString(i), NoDatatype)>>]
        \o NotationTriples(Subject(1), ns) :
        r1 \in Relations, r2 \in Relations, ns \in SeqsUpTo(NotationKinds, 1)}

\* The namespace declarations an element of a fragment can carry
LocalDeclarations ==
    {EmptyDict, NoPrefix :> URI_html, NoPrefix :> URI_other,
     "html" :> URI_html, "html" :> URI_other, "x" :> URI_other}

\* The parsed elements with depth - 1 generations of descendants, one child
\* each, below an element where inscope is in scope: lxml's nsmap is what is
\* in scope on the element, its own declarations included.
RECURSIVE ElementChains(_, _)
ElementChains(depth, inscope) ==
    UNION {LET nsmap == Update(inscope, d)
           IN  {[prefix |-> NoPrefix, local |-> "div", nsmap |-> nsmap,
                 attrib |-> EmptyDict, text |-> Str(""), tail |-> Str(""),
                 children |-> cs] :
                   cs \in IF depth = 1 THEN {<<>>}
                          ELSE {<<c>> : c \in ElementChains(depth - 1, nsmap)}} :
           d \in LocalDeclarations}

Fragments ==
    {Fragment("<div/>", Fragment_XHTML, root) :
        root \in UNION {ElementChains(depth, EmptyDict) : depth \in 1..MaxDepth}}

NewCall(fn, uri, obj) ==
    [fn |-> fn, done |-> FALSE, uri |-> uri, obj |-> obj, res |-> EmptyDict, exc |-> NoExc]

\* The writer when a rule is called: inside the element of its entity
Inside == [out |-> <<>>, depth |-> 1, chars |-> FALSE, exc |-> NoExc]

RulesInit ==
    /\ simple = FALSE
    /\ hashflip \in BOOLEAN
    /\ plan = <<>>
    /\ mode = "idle"
    /\ stack = <<>>
    /\ xg = [depth |-> Inside.depth, chars |-> Inside.chars]
    /\ stream = <<>>
    /\ sink = <<>>
    /\ chunks = <<>>
    /\ status = [e \in EntryPoints |-> "idle"]
    /\ lost = <<>>
    /\ log = <<>>
    /\ nextid = 1
    /\ seen = {}
    /\ \/ graph = <<>> /\ call \in {NewCall("xsi_type", uri, None) : uri \in XsiInputs}
       \/ /\ graph \in VocabularyGraphs
          /\ call = NewCall("serialize_controlled_vocabularies", <<>>, None)
       \/ graph \in SubjectGraphs /\ call = NewCall("serialize_subjects", <<>>, None)
       \/ graph \in DateGraphs /\ call = NewCall("serialize_date", <<>>, None)
       \/ graph \in IdentifierGraphs /\ call = NewCall("serialize_identifiers", <<>>, None)
       \/ /\ graph = <<>>
          /\ call \in {NewCall("descriptive_text_element", <<>>, obj) : obj \in Fragments}

Pending(fn) == call.fn = fn /\ ~call.done

\* The call returns, or an exception leaves it: w is the writer after it.
Returned(w, res) ==
    /\ stream' = w.out
    /\ xg' = [depth |-> w.depth, chars |-> w.chars]
    /\ call' = [call EXCEPT !.done = TRUE, !.exc = w.exc, !.res = res]
    /\ UNCHANGED <<graph, simple, hashflip, plan, mode, stack, sink, chunks, status,
                   lost, log, nextid, seen>>

CallXsiType ==
    /\ Pending("xsi_type")
    /\ Returned(Inside, xsi_type(call.uri))

CallControlledVocabularies ==
    /\ Pending("serialize_controlled_vocabularies")
    /\ Returned(serialize_controlled_vocabularies(Inside, graph, Presentation), EmptyDict)

CallSubjects ==
    /\ Pending("serialize_subjects")
    /\ Returned(serialize_subjects(Inside, graph, hashflip, Course(1)), EmptyDict)

CallDate ==
    /\ Pending("serialize_date")
    /\ Returned(serialize_date(Inside, graph, Presentation, "mlo:start", "mlo:start"),
                EmptyDict)

CallIdentifiers ==
    /\ Pending("serialize_identifiers")
    /\ Returned(serialize_identifiers(Inside, graph, hashflip, Course(1)), EmptyDict)

CallDescriptiveTextElement ==
    /\ Pending("descriptive_text_element")
    /\ Returned(descriptive_text_element(Inside, "dc:description", call.obj, EmptyDict),
                EmptyDict)

RulesNext ==
    \/ CallXsiType
    \/ CallControlledVocabularies
    \/ CallSubjects
    \/ CallDate
    \/ CallIdentifiers
    \/ CallDescriptiveTextElement

RulesSpec == RulesInit /\ [][RulesNext]_vars

-----------------------------------------------------------------------------
(* Properties of the rules                                                  *)

Done(fn) == call.fn = fn /\ call.done

HasKey(d, k) == d # EmptyDict /\ k \in DOMAIN d

\* The elements called name that a rule has written: their attributes and
\* the text written right after the start tag
ElementsOf(out, name) ==
    LET at == SelectSeq([i \in DOMAIN out |-> i],
                        LAMBDA i : out[i].t = "start" /\ out[i].name = name)
    IN  [k \in DOMAIN at |->
            [attrs |-> out[at[k]].attrs,
             text  |-> IF at[k] < Len(out) /\ out[at[k] + 1].t = "chars"
                       THEN out[at[k] + 1].text ELSE <<>>]]

\* The controlled vocabulary the presentation of the graph has a value for
VocabularyEntry ==
    CHOOSE e \in Range(controlled_vocabularies) : Objects(graph, Presentation, e[1]) # <<>>

\* The value node has notations, and none under the vocabulary's scheme.
OnlyWrongScheme ==
    LET ns == Objects(graph, Mode, "skos:notation")
    IN  ns # <<>> /\ \A j \in DOMAIN ns : ns[j].dt # VocabularyEntry[3]

\* The non-empty labels of the value node
ModeLabels ==
    {t[3] : t \in {x \in Range(graph) : x[1] = Mode /\ x[2] \in Range(labels) /\ x[3].v # ""}}

\* C3, as stated: when the value node has a notation only under a scheme
\* other than the vocabulary's, no element is emitted for the property, label
\* or no label.
C3_NoElementForWrongScheme ==
    (Done("serialize_controlled_vocabularies") /\ OnlyWrongScheme) =>
        ElementsOf(stream, VocabularyEntry[2]) = <<>>

\* C3, amended: when the value node has a notation only under a scheme other
\* than the vocabulary's, the notation is rejected and the label decides: with
\* a non-empty label one element is emitted, whose text is the label and which
\* has no identifier attribute; without one, no element is emitted.
C3_WrongSchemeNotationIsRejectedLabelDecides ==
    (Done("serialize_controlled_vocabularies") /\ OnlyWrongScheme) =>
        LET es == ElementsOf(stream, VocabularyEntry[2])
        IN  /\ call.exc = NoExc
            /\ IF ModeLabels = {} THEN es = <<>>
               ELSE /\ Len(es) = 1
                    /\ es[1].attrs = EmptyDict
                    /\ \E l \in ModeLabels : es[1].text = StrOf(l)

\* Only a notation of the wrong scheme, and a label: the element is there.
C3_Witness ==
    /\ Done("serialize_controlled_vocabularies")
    /\ OnlyWrongScheme
    /\ ModeLabels # {}
    /\ Len(ElementsOf(stream, VocabularyEntry[2])) = 1

\* The namespaces of XMLNS whose URI uri starts with, the rest of uri being
\* a valid local name
KnownNamespaces(uri) ==
    {i \in DOMAIN XMLNS : /\ StartsWith(uri, XMLNS[i][2])
                          /\ is_localpart(From(uri, Len(XMLNS[i][2])))}

\* C4: for a URI in a namespace of XMLNS with a valid local name, xsi_type
\* returns xsi:type = prefix:localpart with the prefix of the longest such
\* namespace, and nothing else (no synthesized xmlns:ns).
C4_KnownNamespaceGivesItsPrefix ==
    (Done("xsi_type") /\ KnownNamespaces(call.uri) # {}) =>
        LET i == CHOOSE i \in KnownNamespaces(call.uri) :
                     \A j \in KnownNamespaces(call.uri) : Len(XMLNS[j][2]) <= Len(XMLNS[i][2])
        IN  call.res = ("xsi:type" :> (XMLNS[i][1] \o <<":">>
                                          \o From(call.uri, Len(XMLNS[i][2]))))

\* graph.value(presentation, mlo:start) of the graph of a serialize_date call
DateValue == Value(graph, Presentation, "mlo:start")

\* C6: serialize_date on a literal does not raise and emits one element: for
\* a literal that converts to a native date or date-time, with the formatted
\* text; for any other literal, with the literal's own text and no dtf.
C6_DateLiteralGivesOneElement ==
    (Done("serialize_date") /\ DateValue.k = "lit") =>
        LET es == ElementsOf(stream, "mlo:start")
        IN  /\ call.exc = NoExc
            /\ Len(es) = 1
            /\ CASE toPython(DateValue) = "date" ->
                        es[1].text = Str(StrftimeDate(DateValue.v))
                 [] toPython(DateValue) = "datetime" ->
                        es[1].text = Str(StrftimeDateTime(DateValue.v))
                 [] OTHER ->
                        es[1].text = StrOf(DateValue) /\ ~HasKey(es[1].attrs, "dtf")

\* The subjects 1..3 of the graph of a serialize_subjects call that have been
\* emitted: each has its own label.
EmittedSubjects ==
    {Subject(i) : i \in {j \in 1..3 :
        \E e \in Range(ElementsOf(stream, "dc:subject")) :
            e.text = Str("Subject " \o ToString(j))}}

\* b is the broader term of a: a says so, or b says a is narrower.
Hierarchical(a, b) == Has(graph, a, "skos:broader", b) \/ Has(graph, b, "skos:narrower", a)

AllSubjects == {Subject(i) : i \in 1..3}

\* What is reachable from S by chains of broader, narrower and related
RECURSIVE Reachable(_)
Reachable(S) ==
    LET T == S \cup {b \in AllSubjects :
                        \E a \in S : Hierarchical(a, b) \/ Has(graph, a, "skos:related", b)}
    IN  IF T = S THEN S ELSE Reachable(T)

\* C7, as stated: the subjects emitted for a course are all those reachable
\* from its direct subjects by chains of any length of broader, narrower and
\* related.
C7_SubjectSetIsTransitiveClosure ==
    (Done("serialize_subjects") /\ call.exc = NoExc) =>
        EmittedSubjects = Reachable(DirectSubjects(graph, Course(1)))

\* C7, amended: the subject set is the direct subjects, the terms one broader
\* or narrower step from a direct subject, and the terms one related step
\* from any of these; no chain is followed further.  Every element emitted is
\* for a subject of this set, and all of the set's subjects are emitted when
\* the call returns.
C7_SubjectSetIsOnePassOfEachKind ==
    Done("serialize_subjects") =>
        LET direct == DirectSubjects(graph, Course(1))
            pass1  == direct \cup {b \in AllSubjects : \E a \in direct : Hierarchical(a, b)}
            pass2  == pass1 \cup {b \in AllSubjects :
                                     \E a \in pass1 : Has(graph, a, "skos:related", b)}
        IN  /\ EmittedSubjects \subseteq pass2
            /\ call.exc = NoExc => EmittedSubjects = pass2

\* Subject 3 is two steps from the direct subject and is emitted: a related
\* term of a broader term.
C7_Witness ==
    /\ Done("serialize_subjects")
    /\ Subject(3) \in EmittedSubjects
    /\ ~Has(graph, Course(1), "dcterms:subject", Subject(3))

\* xsi_type can compact the notation's datatype.
Resolves(n) == n.dt # NoDatatype /\ xsi_type(n.dt) # EmptyDict

\* C9: a notation whose datatype does not resolve, a notation without datatype
\* included, is omitted and nothing else: serialize_identifiers emits typed
\* identifiers for exactly the notations that resolve, and neither it nor
\* serialize_subjects raises.
C9_UnresolvableNotationIsOnlyOmitted ==
    /\ Done("serialize_subjects") => call.exc = NoExc
    /\ Done("serialize_identifiers") =>
          LET typed    == SelectSeq(ElementsOf(stream, "dc:identifier"),
                                    LAMBDA e : HasKey(e.attrs, "xsi:type"))
              resolved == SelectSeq(Objects(graph, Course(1), "skos:notation"), Resolves)
          IN  /\ call.exc = NoExc
              /\ [k \in DOMAIN typed |-> typed[k].text]
                    = [k \in DOMAIN resolved |-> StrOf(resolved[k])]

\* The elements of the fragment of a descriptive_text_element call, the root
\* first: the fragments of the model have one child per element.
RECURSIVE ElementsInOrder(_)
ElementsInOrder(xml) ==
    <<xml>> \o (IF xml.children = <<>> THEN <<>> ELSE ElementsInOrder(xml.children[1]))

DeclarationKey(ns) == IF ns = NoPrefix THEN "xmlns" ELSE "xmlns:" \o ns

\* The i-th start tag of the fragment declares ns with the URI of the
\* element's namespace map.
Declared(starts, els, i, ns) ==
    /\ HasKey(starts[i + 1].attrs, DeclarationKey(ns))
    /\ starts[i + 1].attrs[DeclarationKey(ns)] = els[i].nsmap[ns]

\* The URI of ns on the i-th element is not the one of its ambient context:
\* the serializer's table for the root, the parent's map for a descendant.
Differs(els, i, ns) ==
    LET ambient == IF i = 1 THEN xmlns ELSE els[i - 1].nsmap
    IN  ~HasKey(ambient, ns) \/ ambient[ns] # els[i].nsmap[ns]

\* C10: serialize_etree writes one start tag per element of the fragment, in
\* document order, and the tag of an element declares a prefix of the
\* element's namespace map if and only if the prefix's URI differs from, or
\* is absent in, the ambient context.
C10_DeclaredIffDiffersFromAmbient ==
    (Done("descriptive_text_element") /\ call.obj.xml.ok) =>
        LET els    == ElementsInOrder(call.obj.xml.root)
            starts == SelectSeq(stream, LAMBDA e : e.t = "start")
        IN  /\ Len(starts) = 1 + Len(els)
            /\ \A i \in DOMAIN els :
                  /\ \A ns \in DOMAIN els[i].nsmap :
                        Declared(starts, els, i, ns) <=> Differs(els, i, ns)
                  /\ \A a \in DOMAIN starts[i + 1].attrs :
                        \E ns \in DOMAIN els[i].nsmap : a = DeclarationKey(ns)

\* A fragment whose root has the prefix html with its ambient URI, not
\* declared again, and whose child gives html another URI, declared.
C10_Witness ==
    /\ Done("descriptive_text_element")
    /\ call.obj.xml.ok
    /\ LET els    == ElementsInOrder(call.obj.xml.root)
           starts == SelectSeq(stream, LAMBDA e : e.t = "start")
       IN  /\ Len(els) >= 2
           /\ Len(starts) = 1 + Len(els)
           /\ HasKey(els[1].nsmap, "html") /\ ~Differs(els, 1, "html")
           /\ ~HasKey(starts[2].attrs, "xmlns:html")
           /\ Differs(els, 2, "html")
           /\ Declared(starts, els, 2, "html")

=============================================================================
